---- MODULE Spec2Model ----
(***************************************************************************)
(* Username Location Cache (server/app/main.py): the lookup orchestrator   *)
(* (check_username, _refresh_location, add_location) over the              *)
(* account_locations table, the sliding-window rate limiter, and the       *)
(* request counter behind the metrics routes.                              *)
(*                                                                         *)
(* The service runs on one asyncio event loop: a coroutine runs without    *)
(* interruption from one await to the next, so every action below is one   *)
(* such segment.  Wall-clock time is counted in whole days, monotonic time *)
(* in steps of Quantum seconds.  The store is taken to be available.       *)
(***************************************************************************)
EXTENDS Integers, Sequences, FiniteSets, TLC

\* ------------------------------------------------------------- bounds
MaxClock == 8          \* the wall clock stops advancing after this many days
NumTasks == 2          \* coroutines (requests and refresh tasks) alive at once
Quantum == 30          \* seconds between two observations of the monotonic clock
MonoTicks == 3         \* the monotonic clock stops advancing after this many quanta
MaxRequests == 6       \* requests received over a run of the request pipeline

\* ---------------------------------------------------------- constants
cache_ttl_days == 7
WINDOW_SECONDS == 60
WINDOW_LIMIT == 5
REQUEST_WINDOW_SECONDS == 600

None == "None"
Raise == "<raised>"

\* Raw request inputs (query parameter a, payload.username), as sequences
\* of characters.
Inputs == { <<"A">>, <<"a", " ">>, <<"b">>, <<" ">> }

\* Free-form location strings a provider or a caller can supply.
RawLocations == { "usa", "Germany", "Atlantis" }

\* What awaiting fetch_location_for_username can produce: an exception,
\* no value, or a raw string.
ProviderOutcomes == { Raise, None } \cup RawLocations

TaskIds == 1..NumTasks

\* Rate-limit keys: the default, and one a caller names.
Keys == { "metrics", "other" }

\* The instants at which the wall clock is observed: days 0 and 1, and the
\* same again once more than a TTL has passed (so that two instants lie less
\* than, exactly, and more than cache_ttl apart).
Instants == { t \in 0..MaxClock : t % (cache_ttl_days + 1) <= 1 }

VARIABLES
    clock,    \* datetime.now(timezone.utc), in days
    table,    \* the committed rows of account_locations
    task,     \* the coroutines: /check and /add handlers, refresh tasks
    event     \* what the step just taken exchanged with the outside: the request
              \* it rejected or answered, the value the provider returned to it,
              \* the response it returned; Silent after any other step

cacheVars == << clock, table, task, event >>

VARIABLES
    mono,          \* time.monotonic(), in seconds
    _request_log,  \* rate-limit key -> deque of admission timestamps
    granted,       \* history: key -> every timestamp ever admitted, in order
    verdict        \* the outcome of the rate_limit call made in the step just
                   \* taken; NoVerdict after any other step

limiterVars == << mono, _request_log, granted, verdict >>

VARIABLES
    req,                  \* the HTTP requests in flight through the middleware
                          \* and the metrics routes
    running,              \* the request whose coroutine the event loop is
                          \* executing; 0 when control is back in the loop
    _request_timestamps,  \* deque of the timestamps of the requests received
    _rate_lock,           \* asyncio.Lock: the request holding it, or 0
    _request_lock,        \* asyncio.Lock: the request holding it, or 0
    recorded,             \* history: the timestamp of every request recorded, in
                          \* order
    report                \* what the step just taken did to a window or returned
                          \* to the client; NoReport after any other step

metricsVars ==
    << req, running, _request_timestamps, _rate_lock, _request_lock, recorded, report >>

vars ==
    << clock, table, task, event, mono, _request_log, granted, verdict,
       req, running, _request_timestamps, _rate_lock, _request_lock, recorded, report >>

\* ------------------------------------------------------ pure functions

IsSpace(c) == c = " "

RECURSIVE LStrip(_)
LStrip(s) == IF s # <<>> /\ IsSpace(Head(s)) THEN LStrip(Tail(s)) ELSE s

RECURSIVE RStrip(_)
RStrip(s) ==
    IF s # <<>> /\ IsSpace(s[Len(s)]) THEN RStrip(SubSeq(s, 1, Len(s) - 1)) ELSE s

\* str.strip()
Strip(s) == RStrip(LStrip(s))

LowerChar(c) == IF c = "A" THEN "a" ELSE IF c = "B" THEN "b" ELSE c

LowerKeepsCase(s) == s

\* str.lower()
Lower(s) == [i \in DOMAIN s |-> LowerChar(s[i])]

\* normalize_country: the canonical allow-list name of a free-form string,
\* or None.
normalize_country(raw) ==
    CASE raw = "United States" -> "United States"
      [] raw = "usa"           -> "United States"
      [] raw = "Germany"       -> "Germany"
      [] OTHER                 -> None

\* settings.cache_ttl, in days
cache_ttl == cache_ttl_days

IsFreshInverted(now, fetched_at) == (now - fetched_at) > cache_ttl

IsFreshInclusive(now, fetched_at) == (now - fetched_at) <= cache_ttl

\* Line 185
IsFresh(now, fetched_at) == (now - fetched_at) < cache_ttl

\* ------------------------------------------------------------ the store

\* select(location, fetched_at).where(username == normalized): the matching
\* rows.
Select(t, normalized) == { row \in t : row.username = normalized }

NoRecord == [found |-> FALSE, location |-> None, fetched_at |-> -1]

\* result.first(), then lines 183-187: the record's columns, or
\* location, fetched_at = None, None.
First(rows) ==
    IF rows = {} THEN NoRecord
    ELSE LET row == CHOOSE x \in rows : TRUE
         IN [found |-> TRUE, location |-> row.location, fetched_at |-> row.fetched_at]

\* ON CONFLICT ... set_ = {"location": ...} alone
_upsert_location_only(t, normalized_username, location, fetched_at) ==
    LET conflict == { row \in t : row.username = normalized_username }
    IN IF conflict = {}
       THEN t \cup { [username |-> normalized_username, location |-> location,
                      fetched_at |-> fetched_at] }
       ELSE (t \ conflict) \cup { [row EXCEPT !.location = location] : row \in conflict }

\* ON CONFLICT ... DO UPDATE ... WHERE fetched_at < excluded.fetched_at
_upsert_if_newer(t, normalized_username, location, fetched_at) ==
    LET conflict == { row \in t : row.username = normalized_username }
    IN IF conflict = {}
       THEN t \cup { [username |-> normalized_username, location |-> location,
                      fetched_at |-> fetched_at] }
       ELSE (t \ conflict) \cup
            { IF row.fetched_at < fetched_at
              THEN [row EXCEPT !.location = location, !.fetched_at = fetched_at]
              ELSE row : row \in conflict }

\* ON CONFLICT ... DO UPDATE ... WHERE the row has expired
_upsert_if_stale(t, normalized_username, location, fetched_at) ==
    LET conflict == { row \in t : row.username = normalized_username }
    IN IF conflict = {}
       THEN t \cup { [username |-> normalized_username, location |-> location,
                      fetched_at |-> fetched_at] }
       ELSE (t \ conflict) \cup
            { IF fetched_at - row.fetched_at >= cache_ttl
              THEN [row EXCEPT !.location = location, !.fetched_at = fetched_at]
              ELSE row : row \in conflict }

\* ON CONFLICT DO NOTHING
_upsert_do_nothing(t, normalized_username, location, fetched_at) ==
    LET conflict == { row \in t : row.username = normalized_username }
    IN IF conflict = {}
       THEN t \cup { [username |-> normalized_username, location |-> location,
                      fetched_at |-> fetched_at] }
       ELSE t

\* INSERT ... ON CONFLICT (username) DO UPDATE SET location = excluded.location,
\* fetched_at = excluded.fetched_at
_upsert_location_stmt(t, normalized_username, location, fetched_at) ==
    LET conflict == { row \in t : row.username = normalized_username }
        excluded == [username |-> normalized_username, location |-> location,
                     fetched_at |-> fetched_at]
    IN IF conflict = {}
       THEN t \cup { excluded }
       ELSE (t \ conflict) \cup
            { [row EXCEPT !.location = excluded.location,
                          !.fetched_at = excluded.fetched_at] : row \in conflict }

\* ------------------------------------------------------------ responses

NoResponse ==
    [status |-> 0, username |-> <<>>, location |-> None, cached |-> FALSE,
     last_checked |-> -1, expires_at |-> -1]

HTTPException(code) == [NoResponse EXCEPT !.status = code]

LocationResponse(code, username, location, cached, last_checked, expires_at) ==
    [status |-> code, username |-> username, location |-> location,
     cached |-> cached, last_checked |-> last_checked, expires_at |-> expires_at]

\* Lines 190-196
FreshResponse(username, location, fetched_at) ==
    LocationResponse(200, username, location, TRUE, fetched_at, fetched_at + cache_ttl)

\* Lines 200-206
StaleResponse(username, location, fetched_at) ==
    LocationResponse(200, username, location, FALSE, fetched_at, fetched_at + cache_ttl)

AbsentResponseCached(username, canonical_location, now) ==
    LocationResponse(200, username, canonical_location, TRUE, now, now + cache_ttl)

\* Lines 223-229
AbsentResponse(username, canonical_location, now) ==
    LocationResponse(200, username, canonical_location, FALSE, now, now + cache_ttl)

\* Lines 253-259: the response carries payload.location.
AddResponse(username, location, now) ==
    LocationResponse(201, username, location, FALSE, now, now + cache_ttl)

LookupErrorNoneUnchecked(outcome) ==
    IF outcome = Raise THEN 502
    ELSE IF normalize_country(outcome) = None THEN 502
    ELSE 0

LookupErrorUnnormalized(outcome) ==
    IF outcome = Raise THEN 502
    ELSE IF outcome = None THEN 404
    ELSE 0

\* Lines 208-218: the status check_username raises for a provider outcome, 0
\* when it goes on to store the value.
LookupError(outcome) ==
    IF outcome = Raise THEN 502
    ELSE IF outcome = None THEN 404
    ELSE IF normalize_country(outcome) = None THEN 502
    ELSE 0

RefreshGivesUpUnnormalized(outcome) ==
    \/ outcome = Raise
    \/ outcome = None

\* Lines 76-88: whether _refresh_location returns without storing.
RefreshGivesUp(outcome) ==
    \/ outcome = Raise
    \/ outcome = None
    \/ normalize_country(outcome) = None

AddErrorAllowListUnchecked(username, canonical_location) ==
    IF username = <<>> THEN 400 ELSE 0

\* Lines 238-246: the status add_location raises, 0 when it goes on to store.
AddError(username, canonical_location) ==
    IF username = <<>> THEN 400
    ELSE IF canonical_location = None THEN 422
    ELSE 0

\* --------------------------------------------------------------- tasks

Idle ==
    [kind |-> "idle", pc |-> "idle", username |-> <<>>, normalized |-> <<>>,
     now |-> -1, location |-> None, canonical_location |-> None]

Free(s) == task[s].pc = "idle"

\* A new coroutine takes the lowest free slot.
NextFree(s) == Free(s) /\ \A x \in TaskIds : x < s => ~Free(x)

NoCall == "<no call>"

Silent ==
    [op |-> "-", a |-> <<>>, location |-> None, provider |-> NoCall, resp |-> NoResponse,
     replaced |-> {}]

\* A request is answered (or rejected) in this step.
Answer(op, a, location, resp) ==
    [Silent EXCEPT !.op = op, !.a = a, !.location = location, !.resp = resp]

\* The provider call of a task ends in this step.
Provided(op, a, outcome, resp) ==
    [Silent EXCEPT !.op = op, !.a = a, !.provider = outcome, !.resp = resp]

\* An upsert is committed in this step; replaced is the fetched_at of the row
\* it found for the key, if any.
Stored(op, a, location, resp, found) ==
    [Answer(op, a, location, resp) EXCEPT !.replaced = { row.fetched_at : row \in found }]

\* A refresh is created only when none for the key is in flight.
create_task_single_flight(tasks, s, normalized) ==
    IF \E x \in TaskIds \ {s} : tasks[x].kind = "refresh" /\ tasks[x].normalized = normalized
    THEN [tasks EXCEPT ![s] = Idle]
    ELSE [tasks EXCEPT ![s] = [Idle EXCEPT !.kind = "refresh", !.pc = "start",
                                          !.normalized = normalized]]

\* Line 199: asyncio.create_task(_refresh_location(username, normalized)).  The
\* new task takes the slot of the request, which returns in the same step.
create_task(tasks, s, normalized) ==
    [tasks EXCEPT ![s] = [Idle EXCEPT !.kind = "refresh", !.pc = "start",
                                      !.normalized = normalized]]

NoVerdict == [key |-> None, status |-> 0, now |-> -1]

\* A free slot of the request pipeline.  recorded_at is history: the timestamp
\* under which the request was recorded, -1 before that.
NoRequest == [route |-> "-", key |-> None, pc |-> "idle", now |-> -1, recorded_at |-> -1]

NoReport ==
    [op |-> "-", now |-> -1, status |-> 0, cached_users |-> -1, recent_requests |-> -1]

Init ==
    /\ clock = 0
    /\ table = {}
    /\ task = [s \in TaskIds |-> Idle]
    /\ event = Silent
    /\ mono = 0
    /\ _request_log = [k \in Keys |-> <<>>]
    /\ granted = [k \in Keys |-> <<>>]
    /\ verdict = NoVerdict
    /\ req = [s \in TaskIds |-> NoRequest]
    /\ running = 0
    /\ _request_timestamps = <<>>
    /\ _rate_lock = 0
    /\ _request_lock = 0
    /\ recorded = <<>>
    /\ report = NoReport

\* ------------------------------------------------------- check_username

\* Lines 171-176: strip, reject a blank username, lowercase, read the clock;
\* then the SELECT is awaited.
CheckBegin(s, a) ==
    /\ NextFree(s)
    /\ LET username == Strip(a)
       IN IF ~(username # <<>>)
          THEN /\ task' = [task EXCEPT ![s] = Idle]
               /\ event' = Answer("check", a, None, HTTPException(400))
          ELSE /\ task' = [task EXCEPT ![s] =
                              [Idle EXCEPT !.kind = "check", !.pc = "select",
                                           !.username = username,
                                           !.normalized = Lower(username),
                                           !.now = clock]]
               /\ event' = Silent
    /\ UNCHANGED << clock, table, limiterVars, metricsVars >>

\* Lines 178-209: the SELECT returns; FRESH and STALE_PRESENT answer at once
\* (the latter after asyncio.create_task), ABSENT calls the provider.
CheckSelect(s) ==
    /\ task[s].kind = "check" /\ task[s].pc = "select"
    /\ LET me == task[s]
           record == First(Select(table, me.normalized))
           location == record.location
           fetched_at == record.fetched_at
           fresh == IF record.found THEN IsFresh(me.now, fetched_at) ELSE FALSE
       IN IF fresh
          THEN /\ task' = [task EXCEPT ![s] = Idle]
               /\ event' = Answer("check", me.username, None,
                                  FreshResponse(me.username, location, fetched_at))
          ELSE IF location # None
          THEN /\ task' = create_task(task, s, me.normalized)
               /\ event' = Answer("check", me.username, None,
                                  StaleResponse(me.username, location, fetched_at))
          ELSE /\ task' = [task EXCEPT ![s].pc = "fetch"]
               /\ event' = Silent
    /\ UNCHANGED << clock, table, limiterVars, metricsVars >>

\* Lines 209-220: the provider call ends; 502 on an exception, 404 on no value,
\* 502 on a value outside the allow-list, else the upsert is built.
CheckFetch(s, outcome) ==
    /\ task[s].kind = "check" /\ task[s].pc = "fetch"
    /\ IF LookupError(outcome) # 0
       THEN /\ task' = [task EXCEPT ![s] = Idle]
            /\ event' = Provided("check", task[s].username, outcome,
                                 HTTPException(LookupError(outcome)))
       ELSE /\ task' = [task EXCEPT ![s] =
                           [@ EXCEPT !.pc = "upsert",
                                     !.canonical_location = normalize_country(outcome)]]
            /\ event' = Provided("check", task[s].username, outcome, NoResponse)
    /\ UNCHANGED << clock, table, limiterVars, metricsVars >>

\* Lines 221-229: the upsert is executed and committed; the response is built.
\* (The statement takes the key's row lock and the commit releases it, so the
\* two awaits are one step for every other transaction.)
CheckCommit(s) ==
    /\ task[s].kind = "check" /\ task[s].pc = "upsert"
    /\ LET me == task[s]
       IN /\ table' = _upsert_location_stmt(table, me.normalized, me.canonical_location, me.now)
          /\ task' = [task EXCEPT ![s] = Idle]
          /\ event' = Stored("check", me.username, None,
                             AbsentResponse(me.username, me.canonical_location, me.now),
                             Select(table, me.normalized))
    /\ UNCHANGED << clock, limiterVars, metricsVars >>

\* ---------------------------------------------------- _refresh_location

\* Lines 75-77: the task created by create_task starts: it reads the clock and
\* calls the provider.
RefreshStart(s) ==
    /\ task[s].kind = "refresh" /\ task[s].pc = "start"
    /\ task' = [task EXCEPT ![s] = [@ EXCEPT !.pc = "fetch", !.now = clock]]
    /\ event' = Silent
    /\ UNCHANGED << clock, table, limiterVars, metricsVars >>

\* Lines 77-91: the provider call ends; the task returns on an exception, on no
\* value and on a value outside the allow-list, else it builds the upsert.
RefreshFetch(s, outcome) ==
    /\ task[s].kind = "refresh" /\ task[s].pc = "fetch"
    /\ IF RefreshGivesUp(outcome)
       THEN task' = [task EXCEPT ![s] = Idle]
       ELSE task' = [task EXCEPT ![s] =
                        [@ EXCEPT !.pc = "upsert",
                                  !.canonical_location = normalize_country(outcome)]]
    /\ event' = Provided("refresh", task[s].normalized, outcome, NoResponse)
    /\ UNCHANGED << clock, table, limiterVars, metricsVars >>

\* Lines 90-93: the upsert is executed and committed; the task ends.
RefreshCommit(s) ==
    /\ task[s].kind = "refresh" /\ task[s].pc = "upsert"
    /\ LET me == task[s]
       IN /\ table' = _upsert_location_stmt(table, me.normalized, me.canonical_location, me.now)
          /\ task' = [task EXCEPT ![s] = Idle]
          /\ event' = Stored("refresh", me.normalized, None, NoResponse,
                             Select(table, me.normalized))
    /\ UNCHANGED << clock, limiterVars, metricsVars >>

\* --------------------------------------------------------- add_location

\* Lines 237-249: strip, reject a blank username (400), lowercase, read the
\* clock, normalize the supplied location (422 when it is not on the
\* allow-list), build the upsert.
AddBegin(s, username_in, location_in) ==
    /\ NextFree(s)
    /\ LET username == Strip(username_in)
           canonical_location == normalize_country(location_in)
       IN IF AddError(username, canonical_location) # 0
          THEN /\ task' = [task EXCEPT ![s] = Idle]
               /\ event' = Answer("add", username_in, location_in,
                                  HTTPException(AddError(username, canonical_location)))
          ELSE /\ task' = [task EXCEPT ![s] =
                              [Idle EXCEPT !.kind = "add", !.pc = "upsert",
                                           !.username = username,
                                           !.normalized = Lower(username),
                                           !.now = clock, !.location = location_in,
                                           !.canonical_location = canonical_location]]
               /\ event' = Silent
    /\ UNCHANGED << clock, table, limiterVars, metricsVars >>

\* Lines 250-259: the upsert is executed and committed; the response is built.
AddCommit(s) ==
    /\ task[s].kind = "add" /\ task[s].pc = "upsert"
    /\ LET me == task[s]
       IN /\ table' = _upsert_location_stmt(table, me.normalized, me.canonical_location, me.now)
          /\ task' = [task EXCEPT ![s] = Idle]
          /\ event' = Stored("add", me.username, me.location,
                             AddResponse(me.username, me.location, me.now),
                             Select(table, me.normalized))
    /\ UNCHANGED << clock, limiterVars, metricsVars >>

\* ---------------------------------------------------------------- time

\* The wall clock advances to the next instant.
Tick ==
    /\ \E t \in Instants : t > clock
    /\ clock' = CHOOSE t \in Instants : t > clock /\ \A u \in Instants : u > clock => t <= u
    /\ event' = Silent
    /\ UNCHANGED << table, task, limiterVars, metricsVars >>

Next ==
    \/ \E s \in TaskIds, a \in Inputs : CheckBegin(s, a)
    \/ \E s \in TaskIds : CheckSelect(s)
    \/ \E s \in TaskIds, o \in ProviderOutcomes : CheckFetch(s, o)
    \/ \E s \in TaskIds : CheckCommit(s)
    \/ \E s \in TaskIds : RefreshStart(s)
    \/ \E s \in TaskIds, o \in ProviderOutcomes : RefreshFetch(s, o)
    \/ \E s \in TaskIds : RefreshCommit(s)
    \/ \E s \in TaskIds, u \in Inputs, l \in RawLocations \cup {None} : AddBegin(s, u, l)
    \/ \E s \in TaskIds : AddCommit(s)
    \/ Tick

Spec == Init /\ [][Next]_vars

\* ----------------------------------------------------------- rate_limit

RECURSIVE EvictStrict(_, _)
EvictStrict(window, now) ==
    IF window # <<>> /\ Head(window) < now - WINDOW_SECONDS
    THEN EvictStrict(Tail(window), now)
    ELSE window

\* Lines 110-111: while window and window[0] <= now - WINDOW_SECONDS: popleft()
RECURSIVE Evict(_, _)
Evict(window, now) ==
    IF window # <<>> /\ Head(window) <= now - WINDOW_SECONDS
    THEN Evict(Tail(window), now)
    ELSE window

FullOffByOne(window) == Len(window) > WINDOW_LIMIT

\* Line 112
Full(window) == Len(window) >= WINDOW_LIMIT

\* Lines 107-114.  The body of "async with _rate_lock" holds no await, so the
\* lock is free whenever a coroutine reaches it and the call is one segment.
rate_limit(key) ==
    /\ LET now == mono
           window == Evict(_request_log[key], now)
       IN IF Full(window)
          THEN /\ _request_log' = [_request_log EXCEPT ![key] = window]
               /\ granted' = granted
               /\ verdict' = [key |-> key, status |-> 429, now |-> now]
          ELSE /\ _request_log' = [_request_log EXCEPT ![key] = Append(window, now)]
               /\ granted' = [granted EXCEPT ![key] = Append(@, now)]
               /\ verdict' = [key |-> key, status |-> 200, now |-> now]
    /\ UNCHANGED << mono, cacheVars, metricsVars >>

\* time.monotonic() advances, by steps that dwarf the time a coroutine runs
\* between two suspensions.
MonoTick ==
    /\ running = 0
    /\ mono < MonoTicks * Quantum
    /\ mono' = mono + Quantum
    /\ verdict' = NoVerdict
    /\ report' = NoReport
    /\ UNCHANGED << _request_log, granted, cacheVars, req, running, _request_timestamps,
                    _rate_lock, _request_lock, recorded >>

LimiterNext ==
    \/ \E k \in Keys : rate_limit(k)
    \/ MonoTick

LimiterSpec == Init /\ [][LimiterNext]_vars

\* ---------------------------------------- the request pipeline (metrics)
\* Every request enters through record_requests_middleware; the /metrics
\* and /metrics.json routes then pass the rate_limit dependency, count the
\* rows of the table and read the request counter.  Here the steps are single
\* statements and running says whose coroutine the event loop executes: while
\* it is a request, no other request takes a step.

MetricsRoutes == { "/metrics", "/metrics.json" }

\* What a client sends: a route, and for the metrics routes the key
\* parameter of rate_limit ("metrics" when absent).  /metrics.json runs the
\* statements of /metrics and differs in the format of the body only.
Calls ==
    { [route |-> "/metrics", key |-> "metrics"], [route |-> "/check", key |-> None] }

\* The statuses another route's handler answers with.
Outcomes == { 200, 422 }

SuspendsUnderLock(pc) == pc \in { "call_next", "execute", "count_body", "limit_body" }

SuspendsBeforeLock(pc) == pc \in { "call_next", "execute", "record_lock", "limit_lock" }

\* Whether control returns to the event loop before the statement at pc: at
\* await call_next(request) (line 138) and await session.execute (lines 263,
\* 282).  Entering "async with" on a free asyncio.Lock and leaving it do not
\* suspend, and the bodies under the locks hold no await.
Suspends(pc) == pc \in { "call_next", "execute" }

\* The request the loop executes once s has moved to pc.
Yield(s, pc) == IF Suspends(pc) THEN 0 ELSE s

\* s can take a step: it is executing, or every coroutine is suspended.
Runs(s) == running = s \/ running = 0

ReqFree(s) == req[s].pc = "idle"

NextReqFree(s) == ReqFree(s) /\ \A x \in TaskIds : x < s => ~ReqFree(x)

\* Requests received so far.
Received == Len(recorded) + Cardinality({ s \in TaskIds : req[s].pc = "record_lock"
                                                          \/ req[s].pc = "record_body" })

RECURSIVE PopExpiredStrict(_, _)
PopExpiredStrict(window, cutoff) ==
    IF window # <<>> /\ Head(window) < cutoff
    THEN PopExpiredStrict(Tail(window), cutoff)
    ELSE window

\* Lines 121-122 and 130-131:
\* while _request_timestamps and _request_timestamps[0] <= cutoff: popleft()
RECURSIVE PopExpired(_, _)
PopExpired(window, cutoff) ==
    IF window # <<>> /\ Head(window) <= cutoff
    THEN PopExpired(Tail(window), cutoff)
    ELSE window

\* Lines 136-137, 118-119: a request arrives, the middleware calls
\* _record_request, which reads the clock.
Receive(s, call) ==
    /\ running = 0
    /\ NextReqFree(s)
    /\ Received < MaxRequests
    /\ req' = [req EXCEPT ![s] = [NoRequest EXCEPT !.route = call.route, !.key = call.key,
                                                  !.pc = "record_lock", !.now = mono]]
    /\ running' = Yield(s, "record_lock")
    /\ report' = NoReport
    /\ verdict' = NoVerdict
    /\ UNCHANGED << _request_timestamps, _rate_lock, _request_lock, recorded,
                    mono, _request_log, granted, cacheVars >>

\* Line 120: async with _request_lock.  A held lock suspends the caller.
RecordAcquire(s) ==
    /\ Runs(s) /\ req[s].pc = "record_lock"
    /\ IF _request_lock = 0
       THEN /\ _request_lock' = s
            /\ req' = [req EXCEPT ![s].pc = "record_body"]
            /\ running' = Yield(s, "record_body")
       ELSE /\ running' = 0
            /\ UNCHANGED << _request_lock, req >>
    /\ report' = NoReport
    /\ verdict' = NoVerdict
    /\ UNCHANGED << _request_timestamps, _rate_lock, recorded,
                    mono, _request_log, granted, cacheVars >>

\* Lines 121-123, then line 138: evict, append, leave the lock; the middleware
\* awaits call_next.
RecordBody(s) ==
    /\ Runs(s) /\ req[s].pc = "record_body"
    /\ LET now == req[s].now
           cutoff == now - REQUEST_WINDOW_SECONDS
       IN /\ _request_timestamps' = Append(PopExpired(_request_timestamps, cutoff), now)
          /\ recorded' = Append(recorded, now)
          /\ report' = [NoReport EXCEPT !.op = "record", !.now = now]
    /\ req' = [req EXCEPT ![s].pc = "call_next", ![s].recorded_at = req[s].now]
    /\ _request_lock' = 0
    /\ running' = Yield(s, "call_next")
    /\ verdict' = NoVerdict
    /\ UNCHANGED << _rate_lock, mono, _request_log, granted, cacheVars >>

\* A route without the rate_limit dependency: its handler runs and answers.
Handle(s, status) ==
    /\ Runs(s) /\ req[s].pc = "call_next"
    /\ req[s].route \notin MetricsRoutes
    /\ req' = [req EXCEPT ![s] = NoRequest]
    /\ running' = 0
    /\ report' = [NoReport EXCEPT !.op = "handle", !.status = status]
    /\ verdict' = NoVerdict
    /\ UNCHANGED << _request_timestamps, _rate_lock, _request_lock, recorded,
                    mono, _request_log, granted, cacheVars >>

\* Lines 261/280 and 107: the route's dependency rate_limit(key) starts and
\* reads the clock.
LimitNow(s) ==
    /\ Runs(s) /\ req[s].pc = "call_next"
    /\ req[s].route \in MetricsRoutes
    /\ req' = [req EXCEPT ![s].pc = "limit_lock", ![s].now = mono]
    /\ running' = Yield(s, "limit_lock")
    /\ report' = NoReport
    /\ verdict' = NoVerdict
    /\ UNCHANGED << _request_timestamps, _rate_lock, _request_lock, recorded,
                    mono, _request_log, granted, cacheVars >>

\* Line 108: async with _rate_lock.
LimitAcquire(s) ==
    /\ Runs(s) /\ req[s].pc = "limit_lock"
    /\ IF _rate_lock = 0
       THEN /\ _rate_lock' = s
            /\ req' = [req EXCEPT ![s].pc = "limit_body"]
            /\ running' = Yield(s, "limit_body")
       ELSE /\ running' = 0
            /\ UNCHANGED << _rate_lock, req >>
    /\ report' = NoReport
    /\ verdict' = NoVerdict
    /\ UNCHANGED << _request_timestamps, _request_lock, recorded,
                    mono, _request_log, granted, cacheVars >>

\* Lines 109-114: evict, then raise 429 (which ends the request) or append;
\* either way the lock is left.  An admitted request enters the handler, which
\* awaits the row count (lines 263, 282).
LimitBody(s) ==
    /\ Runs(s) /\ req[s].pc = "limit_body"
    /\ LET key == req[s].key
           now == req[s].now
           window == Evict(_request_log[key], now)
       IN IF Full(window)
          THEN /\ _request_log' = [_request_log EXCEPT ![key] = window]
               /\ granted' = granted
               /\ verdict' = [key |-> key, status |-> 429, now |-> now]
               /\ req' = [req EXCEPT ![s] = NoRequest]
               /\ running' = 0
               /\ report' = [NoReport EXCEPT !.op = "limit", !.now = now, !.status = 429]
          ELSE /\ _request_log' = [_request_log EXCEPT ![key] = Append(window, now)]
               /\ granted' = granted    \* no admission history is kept here
               /\ verdict' = [key |-> key, status |-> 200, now |-> now]
               /\ req' = [req EXCEPT ![s].pc = "execute"]
               /\ running' = Yield(s, "execute")
               /\ report' = [NoReport EXCEPT !.op = "limit", !.now = now]
    /\ _rate_lock' = 0
    /\ UNCHANGED << _request_timestamps, _request_lock, recorded, mono, cacheVars >>

\* Lines 264-265 (283-284) and 127-128: the row count is back;
\* _count_recent_requests starts and reads the clock.
CountNow(s) ==
    /\ Runs(s) /\ req[s].pc = "execute"
    /\ req' = [req EXCEPT ![s].pc = "count_lock", ![s].now = mono]
    /\ running' = Yield(s, "count_lock")
    /\ report' = NoReport
    /\ verdict' = NoVerdict
    /\ UNCHANGED << _request_timestamps, _rate_lock, _request_lock, recorded,
                    mono, _request_log, granted, cacheVars >>

\* Line 129: async with _request_lock.
CountAcquire(s) ==
    /\ Runs(s) /\ req[s].pc = "count_lock"
    /\ IF _request_lock = 0
       THEN /\ _request_lock' = s
            /\ req' = [req EXCEPT ![s].pc = "count_body"]
            /\ running' = Yield(s, "count_body")
       ELSE /\ running' = 0
            /\ UNCHANGED << _request_lock, req >>
    /\ report' = NoReport
    /\ verdict' = NoVerdict
    /\ UNCHANGED << _request_timestamps, _rate_lock, recorded,
                    mono, _request_log, granted, cacheVars >>

\* Lines 130-132, then 267-277 (285): evict, take the length, leave the lock;
\* the handler answers with the two counts.
CountBody(s) ==
    /\ Runs(s) /\ req[s].pc = "count_body"
    /\ LET now == req[s].now
           cutoff == now - REQUEST_WINDOW_SECONDS
           window == PopExpired(_request_timestamps, cutoff)
       IN /\ _request_timestamps' = window
          /\ report' = [op |-> "count", now |-> now, status |-> 200,
                        cached_users |-> Cardinality(table),
                        recent_requests |-> Len(window)]
    /\ req' = [req EXCEPT ![s] = NoRequest]
    /\ _request_lock' = 0
    /\ running' = 0
    /\ verdict' = NoVerdict
    /\ UNCHANGED << _rate_lock, recorded, mono, _request_log, granted, cacheVars >>

\* A quiet stretch: time.monotonic() is next read just under a request window
\* later.
MonoLeap ==
    /\ running = 0
    /\ mono = MonoTicks * Quantum
    /\ mono' = mono + REQUEST_WINDOW_SECONDS - Quantum
    /\ verdict' = NoVerdict
    /\ report' = NoReport
    /\ UNCHANGED << _request_log, granted, cacheVars, req, running, _request_timestamps,
                    _rate_lock, _request_lock, recorded >>

MetricsNext ==
    \/ \E s \in TaskIds, call \in Calls : Receive(s, call)
    \/ \E s \in TaskIds : RecordAcquire(s)
    \/ \E s \in TaskIds : RecordBody(s)
    \/ \E s \in TaskIds, status \in Outcomes : Handle(s, status)
    \/ \E s \in TaskIds : LimitNow(s)
    \/ \E s \in TaskIds : LimitAcquire(s)
    \/ \E s \in TaskIds : LimitBody(s)
    \/ \E s \in TaskIds : CountNow(s)
    \/ \E s \in TaskIds : CountAcquire(s)
    \/ \E s \in TaskIds : CountBody(s)
    \/ MonoTick
    \/ MonoLeap

MetricsSpec == Init /\ [][MetricsNext]_vars

\* --------------------------------------------------------------- claims

\* Task s takes a step.
Acts(s) == task'[s] # task[s]

\* Task s is a /check handler whose SELECT returns in this step.
Selects(s) == task[s].kind = "check" /\ task[s].pc = "select" /\ Acts(s)

Others(s) == \A x \in TaskIds \ {s} : task'[x] = task[x]

Row(k, v, t) == [username |-> k, location |-> v, fetched_at |-> t]

\* C1: a lookup whose key has a stored entry with now - fetchedAt < ttl (now
\* the lookup's own timestamp) ends in the step that reads it: no provider
\* call, no refresh task, no store write, and the answer is the stored value
\* with cached = true and expiresAt = fetchedAt + ttl.
C1_FreshServedFromStore ==
    [][\A s \in TaskIds : \A row \in table :
          (Selects(s) /\ row.username = task[s].normalized
                      /\ task[s].now - row.fetched_at < cache_ttl_days)
          => /\ task'[s] = Idle
             /\ Others(s)
             /\ table' = table
             /\ event'.provider = NoCall
             /\ event'.resp = [status |-> 200, username |-> task[s].username,
                               location |-> row.location, cached |-> TRUE,
                               last_checked |-> row.fetched_at,
                               expires_at |-> row.fetched_at + cache_ttl_days]]_vars

\* A cached answer went out, served from a row fetched on an earlier day.
C1_Witness ==
    /\ event.op = "check" /\ event.resp.status = 200 /\ event.resp.cached
    /\ clock > event.resp.last_checked
    /\ Row(Lower(event.a), event.resp.location, event.resp.last_checked) \in table

\* C2: a lookup whose key has a stored entry with now - fetchedAt >= ttl
\* answers in the step that reads it with the old value, cached = false and
\* expiresAt from the old fetchedAt; no provider call has been made by then,
\* the store is untouched, a refresh task for the key has been created, and the
\* first thing that task does is call the provider.  The lookup does not go on
\* to the synchronous provider call.
C2_StaleServedThenRefreshed ==
    [][/\ \A s \in TaskIds : \A row \in table :
            (Selects(s) /\ row.username = task[s].normalized
                        /\ task[s].now - row.fetched_at >= cache_ttl_days)
            => /\ event'.resp = [status |-> 200, username |-> task[s].username,
                                 location |-> row.location, cached |-> FALSE,
                                 last_checked |-> row.fetched_at,
                                 expires_at |-> row.fetched_at + cache_ttl_days]
               /\ event'.provider = NoCall
               /\ table' = table
               /\ task'[s].kind = "refresh" /\ task'[s].pc = "start"
               /\ task'[s].normalized = row.username
               /\ Others(s)
       /\ \A s \in TaskIds :
            (task[s].kind = "refresh" /\ task[s].pc = "start" /\ Acts(s))
            => /\ task'[s].kind = "refresh" /\ task'[s].pc = "fetch"
               /\ task'[s].normalized = task[s].normalized
               /\ table' = table]_vars

\* A stale answer went out and its refresh task waits to start.
C2_Witness ==
    /\ event.op = "check" /\ event.resp.status = 200 /\ ~event.resp.cached
    /\ clock - event.resp.last_checked >= cache_ttl_days
    /\ Row(Lower(event.a), event.resp.location, event.resp.last_checked) \in table
    /\ \E s \in TaskIds : /\ task[s].kind = "refresh" /\ task[s].pc = "start"
                          /\ task[s].normalized = Lower(event.a)

\* The provider outcomes on which a task stores nothing.
Unresolved(o) == o = Raise \/ o = None \/ normalize_country(o) = None

\* C3: a background refresh whose provider call raises, returns no value or
\* returns a value that fails normalization ends there: it writes nothing (the
\* key's row is what it was, as is every other row), no response or error
\* goes to any request, and a read of the key right after returns the old
\* entry.  A refresh task writes in no step but its upsert.
C3_RefreshFailureKeepsEntry ==
    [][\A s \in TaskIds :
          /\ (task[s].kind = "refresh" /\ task[s].pc = "fetch" /\ Acts(s)
                 /\ Unresolved(event'.provider))
             => /\ table' = table
                /\ First(Select(table', task[s].normalized))
                      = First(Select(table, task[s].normalized))
                /\ task'[s] = Idle
                /\ Others(s)
                /\ event'.resp = NoResponse
          /\ (task[s].kind = "refresh" /\ task[s].pc # "upsert" /\ Acts(s))
             => table' = table]_vars

\* A refresh just gave up and the stale row of its key is still there.
C3_Witness ==
    /\ event.op = "refresh" /\ Unresolved(event.provider)
    /\ \E row \in table : /\ row.username = event.a
                          /\ clock - row.fetched_at >= cache_ttl_days
    /\ \A s \in TaskIds : task[s].normalized # event.a

\* C4: on the ABSENT path a provider exception ends the lookup with 502, no
\* value with 404, a value that fails normalization with 502, and in each case
\* the store is unchanged and the lookup is over.  A lookup reaches its store
\* write only from a provider call that returned a value that normalized, and
\* changes the store in no other step.
C4_AbsentFailurePersistsNothing ==
    [][\A s \in TaskIds :
          /\ (task[s].kind = "check" /\ task[s].pc = "fetch" /\ Acts(s))
             => /\ event'.provider = Raise => event'.resp = HTTPException(502)
                /\ event'.provider = None => event'.resp = HTTPException(404)
                /\ (event'.provider \notin {Raise, None}
                        /\ normalize_country(event'.provider) = None)
                   => event'.resp = HTTPException(502)
                /\ Unresolved(event'.provider)
                   => table' = table /\ task'[s] = Idle /\ Others(s)
          /\ (task'[s].kind = "check" /\ task'[s].pc = "upsert" /\ Acts(s))
             => /\ task[s].kind = "check" /\ task[s].pc = "fetch"
                /\ ~Unresolved(event'.provider)
                /\ task'[s].canonical_location = normalize_country(event'.provider)
          /\ (task[s].kind = "check" /\ Acts(s) /\ table' # table)
             => task[s].pc = "upsert" /\ task[s].canonical_location # None]_vars

\* A first-ever lookup just ended 404 and its key has no row.
C4_Witness ==
    /\ event.op = "check" /\ event.provider = None /\ event.resp.status = 404
    /\ Select(table, Lower(event.a)) = {}
    /\ table # {}

\* C5: on the ABSENT path a provider value that normalizes to c takes the lookup
\* to its upsert, which leaves exactly the row (key, c, now) for the key, now
\* being the timestamp the lookup took when it began, and answers c with
\* cached = false.  While that row stands, a lookup begun less than ttl after
\* now is answered c with cached = true, and one begun ttl or more after now is
\* answered c with cached = false and leaves a refresh task behind.
C5_AbsentSuccessThenScenario ==
    [][\A s \in TaskIds :
          /\ (task[s].kind = "check" /\ task[s].pc = "fetch" /\ Acts(s)
                 /\ ~Unresolved(event'.provider))
             => task'[s] = [task[s] EXCEPT
                               !.pc = "upsert",
                               !.canonical_location = normalize_country(event'.provider)]
          /\ (task[s].kind = "check" /\ task[s].pc = "upsert" /\ Acts(s))
             => /\ Select(table', task[s].normalized)
                      = { Row(task[s].normalized, task[s].canonical_location, task[s].now) }
                /\ event'.resp = [status |-> 200, username |-> task[s].username,
                                  location |-> task[s].canonical_location,
                                  cached |-> FALSE, last_checked |-> task[s].now,
                                  expires_at |-> task[s].now + cache_ttl_days]
                /\ task'[s] = Idle
          /\ \A row \in table :
               (Selects(s) /\ row.username = task[s].normalized
                           /\ task[s].now >= row.fetched_at)
               => /\ event'.resp.status = 200
                  /\ event'.resp.location = row.location
                  /\ event'.resp.cached = (task[s].now < row.fetched_at + cache_ttl_days)
                  /\ ~event'.resp.cached => task'[s].kind = "refresh"
                  /\ event'.resp.cached => task'[s] = Idle]_vars

\* A lookup that found no row just stored the provider's value and answered
\* it uncached (a stale answer is never this young).
C5_Witness ==
    /\ event.op = "check" /\ event.resp.status = 200 /\ ~event.resp.cached
    /\ event.replaced = {}
    /\ event.resp.location = "United States"
    /\ clock - event.resp.last_checked < cache_ttl_days
    /\ clock > event.resp.last_checked
    /\ Row(Lower(event.a), "United States", event.resp.last_checked) \in table

\* C6: an explicit-set whose username is blank after trimming is rejected with
\* 400, and one whose location is not on the allow-list with 422; either way
\* the store and every task are as they were.  No explicit-set with such input
\* ever becomes a writer.
C6_AddValidationRejects ==
    [][/\ (event'.op = "add" /\ Strip(event'.a) = <<>>)
          => event'.resp = HTTPException(400) /\ table' = table /\ task' = task
       /\ (event'.op = "add" /\ Strip(event'.a) # <<>>
              /\ normalize_country(event'.location) = None)
          => event'.resp = HTTPException(422) /\ table' = table /\ task' = task
       /\ \A s \in TaskIds :
            (task'[s].kind = "add" /\ Acts(s))
            => /\ task'[s].username # <<>>
               /\ normalize_country(task'[s].location) # None
               /\ task'[s].canonical_location = normalize_country(task'[s].location)]_vars

\* An explicit-set with a location off the allow-list was just rejected while
\* its key has a row.
C6_Witness ==
    /\ event.op = "add" /\ event.location = "Atlantis" /\ event.resp.status = 422
    /\ Select(table, Lower(Strip(event.a))) # {}

\* The granted admissions of key k that are less than W old at now.
Recent(k, now) ==
    Cardinality({ i \in DOMAIN granted[k] : granted[k][i] > now - WINDOW_SECONDS })

\* C7: a rate_limit call for key k at now admits and appends now iff fewer than
\* L of the admissions granted to k so far have a timestamp > now - W; else it
\* rejects with 429 and appends nothing.
C7_AdmitIffUnderLimit ==
    [][\A k \in Keys :
          (verdict'.key = k /\ (verdict' # verdict \/ _request_log' # _request_log))
          => /\ verdict'.now = mono
             /\ IF Recent(k, mono) < WINDOW_LIMIT
                THEN /\ verdict'.status = 200
                     /\ granted' = [granted EXCEPT ![k] = Append(@, mono)]
                     /\ Len(_request_log'[k]) >= 1
                     /\ _request_log'[k][Len(_request_log'[k])] = mono
                     /\ Len(_request_log'[k]) = Recent(k, mono) + 1
                ELSE /\ verdict'.status = 429
                     /\ granted' = granted
                     /\ Len(_request_log'[k]) = WINDOW_LIMIT
                     /\ \A i \in 1..WINDOW_LIMIT :
                          _request_log'[k][i]
                              = _request_log[k][i + Len(_request_log[k]) - WINDOW_LIMIT]
             /\ \A j \in Keys \ {k} : _request_log'[j] = _request_log[j]]_vars

\* Five admissions at time 0 were granted, and one made exactly W later has
\* just been granted too.
C7_Witness ==
    \E k \in Keys :
        /\ verdict = [key |-> k, status |-> 200, now |-> WINDOW_SECONDS]
        /\ granted[k] = << 0, 0, 0, 0, 0, WINDOW_SECONDS >>
        /\ _request_log[k] = << WINDOW_SECONDS >>

\* C8: every window holds at most L timestamps, and for every key and instant t
\* at most L granted admissions have a timestamp in (t - W, t].  (The number
\* of admissions in (t - W, t] does not drop when t is moved back to the latest
\* admission at or before t, so the instants to look at are the admissions'
\* own timestamps, and the present.)
C8_WindowBound ==
    \A k \in Keys :
        /\ Len(_request_log[k]) <= WINDOW_LIMIT
        /\ \A t \in { granted[k][i] : i \in DOMAIN granted[k] } \cup { mono } :
               Cardinality({ i \in DOMAIN granted[k] :
                                t - WINDOW_SECONDS < granted[k][i] /\ granted[k][i] <= t })
                   <= WINDOW_LIMIT

\* A key was granted more than L admissions over time, its window is full, and
\* a call has just been rejected.
C8_Witness ==
    \E k \in Keys :
        /\ Len(granted[k]) > WINDOW_LIMIT
        /\ Len(_request_log[k]) = WINDOW_LIMIT
        /\ verdict.key = k /\ verdict.status = 429

\* Task s commits its upsert in this step.
Commits(s) == task[s].pc = "upsert" /\ Acts(s)

\* C9: whatever writers are in flight for a key, a commit leaves exactly one row
\* for the key and that row carries the committing writer's own value and
\* timestamp; the store changes in no other step, and never holds two rows for
\* one key.  So after N racing writers have all committed the row is the pair of
\* the one that committed last.
C9_ConcurrentUpsertsNoMix ==
    [][/\ \A s \in TaskIds :
            Commits(s)
            => /\ Cardinality(Select(table', task[s].normalized)) = 1
               /\ \A row \in Select(table', task[s].normalized) :
                     /\ row.location = task[s].canonical_location
                     /\ row.fetched_at = task[s].now
       /\ table' # table => \E s \in TaskIds : Commits(s)
       /\ \A row \in table' : Cardinality(Select(table', row.username)) = 1]_vars

\* A writer just committed its pair over the row of an earlier writer, while
\* another writer of the same key with a different pair is still in flight.
C9_Witness ==
    /\ event.op \in {"check", "refresh", "add"}
    /\ event.replaced # {}
    /\ \E row \in table, s \in TaskIds :
          /\ row.username = Lower(event.a)
          /\ row.fetched_at \notin event.replaced
          /\ task[s].pc = "upsert"
          /\ task[s].normalized = row.username
          /\ task[s].canonical_location # row.location
          /\ task[s].now # row.fetched_at

\* C10: upsert(k, v, t) followed by get(k) returns exactly (v, t), whether k had
\* no row or a row with any value and any timestamp (a later one included), and
\* the rows of every other key are unchanged.
C10_UpsertGetRoundTrip ==
    [][\A s \in TaskIds :
          Commits(s)
          => /\ First(Select(table', task[s].normalized))
                   = [found |-> TRUE, location |-> task[s].canonical_location,
                      fetched_at |-> task[s].now]
             /\ { row \in table' : row.username # task[s].normalized }
                   = { row \in table : row.username # task[s].normalized }]_vars

\* An explicit-set just replaced a row that carried a later timestamp and
\* another value, and a row of another key stands.
C10_Witness ==
    /\ event.op = "add"
    /\ event.resp.status = 201
    /\ \E old \in event.replaced : old > event.resp.last_checked
    /\ Row(Lower(event.a), normalize_country(event.location), event.resp.last_checked)
          \in table
    /\ \E row \in table : row.username # Lower(event.a)

\* C12: an explicit-set whose location normalizes to c becomes a writer with
\* the timestamp it read on arrival and with c; its commit leaves exactly the
\* row (key, c, now) whatever row the key had (none, a fresh one, one with a
\* later fetched_at); it never calls the provider, and it answers 201 with
\* cached = false, last_checked = now and expires_at = now + ttl.
C12_AddUnconditional ==
    [][\A s \in TaskIds :
          /\ (task'[s].kind = "add" /\ Acts(s))
             => /\ task[s] = Idle
                /\ task'[s].pc = "upsert"
                /\ task'[s].now = clock
                /\ task'[s].canonical_location = normalize_country(task'[s].location)
                /\ task'[s].canonical_location # None
                /\ task'[s].normalized = Lower(task'[s].username)
                /\ event'.provider = NoCall
                /\ table' = table
          /\ (task[s].kind = "add" /\ Acts(s))
             => /\ task[s].pc = "upsert"
                /\ Select(table', task[s].normalized)
                      = { Row(task[s].normalized, task[s].canonical_location, task[s].now) }
                /\ event'.provider = NoCall
                /\ event'.resp.status = 201
                /\ event'.resp.username = task[s].username
                /\ event'.resp.cached = FALSE
                /\ event'.resp.last_checked = task[s].now
                /\ event'.resp.expires_at = task[s].now + cache_ttl_days
                /\ task'[s] = Idle]_vars

\* An explicit-set has just overwritten an entry that was still fresh.
C12_Witness ==
    /\ event.op = "add" /\ event.resp.status = 201 /\ ~event.resp.cached
    /\ \E old \in event.replaced :
          /\ old <= event.resp.last_checked
          /\ event.resp.last_checked - old < cache_ttl_days
    /\ \E row \in table :
          /\ row.username = Lower(event.a)
          /\ row.fetched_at = event.resp.last_checked
          /\ row.location = "Germany"
          /\ event.resp.expires_at = row.fetched_at + cache_ttl_days

\* Task s is a lookup that reads, in this step, a row of its key that is no
\* longer fresh.
ReadsStale(s) ==
    /\ Selects(s)
    /\ \E row \in table : /\ row.username = task[s].normalized
                          /\ task[s].now - row.fetched_at >= cache_ttl_days

\* The refresh tasks created in this step.
Launched ==
    { s \in TaskIds : task'[s].kind = "refresh" /\ task'[s].pc = "start" /\ Acts(s) }

\* C14: in every step the number of refresh tasks created equals the number of
\* lookups answered from a stale entry (so the totals agree), also while
\* another refresh of the same key is in flight; a lookup answered fresh or
\* through the provider creates none.  Every refresh task makes its own
\* provider call and, if the value resolves, its own upsert, and no step of
\* one task changes another.
C14_OneRefreshPerStaleAnswer ==
    [][/\ Cardinality(Launched) = Cardinality({ s \in TaskIds : ReadsStale(s) })
       /\ \A s \in TaskIds :
            /\ ReadsStale(s)
               => /\ s \in Launched
                  /\ task'[s].normalized = task[s].normalized
                  /\ event'.resp.status = 200 /\ ~event'.resp.cached
            /\ (task[s].kind = "check" /\ Acts(s) /\ ~ReadsStale(s))
               => task'[s].kind # "refresh"
            /\ (task[s].kind = "add" /\ Acts(s)) => task'[s].kind # "refresh"
            /\ (task[s].kind = "refresh" /\ Acts(s))
               => /\ Others(s)
                  /\ task[s].pc = "start"
                     => /\ task'[s].pc = "fetch" /\ event'.provider = NoCall
                        /\ task'[s].normalized = task[s].normalized
                  /\ task[s].pc = "fetch"
                     => /\ event'.provider # NoCall
                        /\ table' = table
                        /\ IF Unresolved(event'.provider)
                           THEN task'[s] = Idle
                           ELSE /\ task'[s].pc = "upsert"
                                /\ task'[s].normalized = task[s].normalized
                                /\ task'[s].canonical_location
                                      = normalize_country(event'.provider)
                  /\ task[s].pc = "upsert"
                     => /\ Select(table', task[s].normalized)
                              = { Row(task[s].normalized, task[s].canonical_location,
                                      task[s].now) }
                        /\ task'[s] = Idle]_vars

\* A second lookup of a stale key has just been answered and has created its
\* refresh task while the refresh created by the first is about to upsert.
C14_Witness ==
    /\ event.op = "check" /\ event.resp.status = 200 /\ ~event.resp.cached
    /\ clock - event.resp.last_checked >= cache_ttl_days
    /\ \A s \in TaskIds : task[s].kind = "refresh" /\ task[s].normalized = Lower(event.a)
    /\ \E s \in TaskIds : task[s].pc = "start"
    /\ \E s \in TaskIds : task[s].pc = "upsert"

\* C17: a refresh task takes its timestamp when it starts, before its provider
\* call; when the provider's value normalizes to c the task keeps that
\* timestamp and its commit leaves exactly the row (key, c, timestamp); and a
\* lookup that reads a row less than ttl after the row's timestamp answers the
\* row's value with cached = true, calls no provider and writes nothing.
C17_RefreshMakesFresh ==
    [][\A s \in TaskIds :
          /\ (task[s].kind = "refresh" /\ task[s].pc = "start" /\ Acts(s))
             => /\ task'[s].now = clock
                /\ task'[s].pc = "fetch"
                /\ event'.provider = NoCall
          /\ (task[s].kind = "refresh" /\ task[s].pc = "fetch" /\ Acts(s)
                 /\ ~Unresolved(event'.provider))
             => /\ task'[s].now = task[s].now
                /\ task'[s].pc = "upsert"
                /\ task'[s].canonical_location = normalize_country(event'.provider)
          /\ (task[s].kind = "refresh" /\ task[s].pc = "upsert" /\ Acts(s))
             => /\ Select(table', task[s].normalized)
                      = { Row(task[s].normalized, task[s].canonical_location, task[s].now) }
                /\ First(Select(table', task[s].normalized))
                      = [found |-> TRUE, location |-> task[s].canonical_location,
                         fetched_at |-> task[s].now]
                /\ task[s].now <= clock
                /\ clock' = clock
          /\ \A row \in table :
               (Selects(s) /\ row.username = task[s].normalized
                           /\ row.fetched_at <= task[s].now
                           /\ task[s].now < row.fetched_at + cache_ttl_days)
               => /\ event'.resp.status = 200
                  /\ event'.resp.location = row.location
                  /\ event'.resp.cached = TRUE
                  /\ event'.resp.last_checked = row.fetched_at
                  /\ event'.provider = NoCall
                  /\ table' = table
                  /\ task'[s] = Idle]_vars

\* A refresh has just committed a new value over an expired row, and the row
\* it left is fresh.
C17_Witness ==
    /\ event.op = "refresh" /\ event.provider = NoCall
    /\ event.replaced # {}
    /\ \A old \in event.replaced : clock - old >= cache_ttl_days
    /\ \E row \in table :
          /\ row.username = event.a
          /\ row.fetched_at \notin event.replaced
          /\ clock - row.fetched_at < cache_ttl_days
          /\ row.location = "Germany"

\* The key of every trimmed username.
KeyOfTrimmed == (<<"A">> :> <<"a">>) @@ (<<"a">> :> <<"a">>) @@ (<<"b">> :> <<"b">>)

\* C18: the store never holds two rows for one key and every key in it is a
\* trimmed, lowercased username; a lookup or explicit-set works with its
\* username trimmed and with the lowercased username as its key (the same
\* key for "A" and "a "), reads that key's row, writes that key's row and no
\* other, and answers with the trimmed username in its original case.
C18_OneEntryPerNormalizedKey ==
    /\ [](\A row \in table :
             /\ Cardinality(Select(table, row.username)) = 1
             /\ row.username \in { <<"a">>, <<"b">> })
    /\ [][\A s \in TaskIds :
             /\ (task[s].pc = "idle" /\ task'[s].kind \in { "check", "add" })
                => /\ task'[s].username \in DOMAIN KeyOfTrimmed
                   /\ task'[s].normalized = KeyOfTrimmed[task'[s].username]
             /\ \A row \in table :
                  (Selects(s) /\ row.username = KeyOfTrimmed[task[s].username])
                  => /\ event'.resp.status = 200
                     /\ event'.resp.location = row.location
                     /\ event'.resp.last_checked = row.fetched_at
             /\ (Commits(s) /\ task[s].kind \in { "check", "add" })
                => /\ \E row \in table' :
                        /\ row.username = KeyOfTrimmed[task[s].username]
                        /\ row.fetched_at = task[s].now
                        /\ row.location = task[s].canonical_location
                   /\ { row \in table' : row.username # KeyOfTrimmed[task[s].username] }
                         = { row \in table : row.username # KeyOfTrimmed[task[s].username] }
             /\ (task[s].kind \in { "check", "add" } /\ Acts(s) /\ event'.resp.status \in { 200, 201 })
                => event'.resp.username = task[s].username]_vars

\* A lookup of "A" has just been answered from the cache, with the username
\* "A", out of the only row there is, that of the key "a", while a lookup of
\* "a" is about to read the same row.
C18_Witness ==
    /\ event.op = "check" /\ event.resp.status = 200 /\ event.resp.cached
    /\ event.resp.username = <<"A">>
    /\ table = { Row(<<"a">>, "Germany", event.resp.last_checked) }
    /\ event.resp.location = "Germany"
    /\ \E s \in TaskIds : /\ task[s].kind = "check" /\ task[s].pc = "select"
                          /\ task[s].username = <<"a">>

\* The names on the allow-list: what normalize_country returns when it returns
\* a value.
AllowList == { "United States", "Germany" }

\* C19: in every state every stored location is a name on the allow-list, never
\* null, and so is the location every writer is about to store; hence a
\* lookup that finds a row for its key reads a location that is not None,
\* answers in that step and never goes on to the provider call.
C19_StoredValuesCanonical ==
    /\ [](/\ \A row \in table : row.location # None /\ row.location \in AllowList
          /\ \A s \in TaskIds :
               task[s].pc = "upsert" => task[s].canonical_location \in AllowList)
    /\ [][\A s \in TaskIds :
             Selects(s)
             => LET rows == Select(table, task[s].normalized)
                IN /\ (rows # {}) = (First(rows).location # None)
                   /\ rows # {}
                      => /\ task'[s].pc # "fetch"
                         /\ task'[s].kind # "check"
                         /\ event'.provider = NoCall
                         /\ event'.resp.status = 200
                         /\ event'.resp.location \in AllowList
                   /\ rows = {} => task'[s].pc = "fetch"]_vars

\* An explicit-set that supplied "usa" has just stored "United States", and
\* both keys have a row.
C19_Witness ==
    /\ event.op = "add" /\ event.location = "usa" /\ event.resp.status = 201
    /\ Row(Lower(event.a), "United States", event.resp.last_checked) \in table
    /\ Cardinality(table) = 2

\* C20: when an explicit-set commits, the location in its response is the
\* location a lookup of the key reads right after (the canonical value that
\* was stored), whatever raw form was supplied.
C20_AddResponseAgreesWithStore ==
    [][\A s \in TaskIds :
          (task[s].kind = "add" /\ Commits(s))
          => /\ event'.resp.status = 201
             /\ event'.resp.location = First(Select(table', task[s].normalized)).location
             /\ event'.resp.location = task[s].canonical_location]_vars

\* ------------------------------------------- claims: the request pipeline

\* Request s takes a step.
Steps(s) == req'[s] # req[s]

\* Request s is past _record_request.
PastRecord(pc) == pc \in { "call_next", "limit_lock", "limit_body", "execute",
                           "count_lock", "count_body" }

\* The recorded requests whose timestamp lies in (now - W2, now].
InRequestWindow(now) ==
    { i \in DOMAIN recorded :
         now - REQUEST_WINDOW_SECONDS < recorded[i] /\ recorded[i] <= now }

\* Every request is recorded once, under the timestamp it read on arrival,
\* before the limiter or a handler sees it and whatever it is answered.
RecordedOnceBeforeHandled ==
    /\ \A s \in TaskIds :
         /\ (req[s].pc = "record_body" /\ Steps(s))
            => /\ recorded' = Append(recorded, req[s].now)
               /\ Len(_request_timestamps') >= 1
               /\ _request_timestamps'[Len(_request_timestamps')] = req[s].now
               /\ req'[s].pc = "call_next"
               /\ req'[s].recorded_at = req[s].now
         /\ (PastRecord(req[s].pc) /\ Steps(s))
            => /\ req[s].recorded_at >= 0
               /\ \E i \in DOMAIN recorded : recorded[i] = req[s].recorded_at
               /\ recorded' = recorded
               /\ req'[s].pc = "idle" \/ /\ PastRecord(req'[s].pc)
                                         /\ req'[s].recorded_at = req[s].recorded_at
         /\ (req[s].pc = "idle" /\ Steps(s))
            => req'[s].pc = "record_lock" /\ req'[s].recorded_at = -1 /\ recorded' = recorded
    /\ report'.status # 0
       => \E s \in TaskIds : PastRecord(req[s].pc) /\ Steps(s) /\ req'[s].pc = "idle"
    /\ recorded' # recorded => \E s \in TaskIds : req[s].pc = "record_body" /\ Steps(s)

\* count(now) is the number of recorded requests with a timestamp in
\* (now - W2, now].
CountIsExact ==
    \A s \in TaskIds :
        (req[s].pc = "count_body" /\ Steps(s))
        => /\ report'.op = "count"
           /\ report'.recent_requests = Cardinality(InRequestWindow(req[s].now))
           /\ \A i \in DOMAIN recorded : recorded[i] <= req[s].now

\* The original statement of C11: as the amended one, but the count a metrics
\* request reports includes that request in every case.
C11_CountAlwaysIncludesItself ==
    [][/\ RecordedOnceBeforeHandled
       /\ CountIsExact
       /\ \A s \in TaskIds :
            (req[s].pc = "count_body" /\ Steps(s))
            => /\ report'.recent_requests >= 1
               /\ \E i \in DOMAIN _request_timestamps' :
                     _request_timestamps'[i] = req[s].recorded_at]_vars

\* C11 (amended): every request, whatever its route and its outcome, is
\* recorded exactly once before it is handled; count(now) returns the number
\* of recorded requests with a timestamp in (now - 600 s, now]; and the count a
\* metrics request reports includes that request when the count is taken less
\* than 600 s after the request was recorded.
C11_RecordedOnceAndCounted ==
    [][/\ RecordedOnceBeforeHandled
       /\ CountIsExact
       /\ \A s \in TaskIds :
            (req[s].pc = "count_body" /\ Steps(s)
                /\ req[s].now - req[s].recorded_at < REQUEST_WINDOW_SECONDS)
            => /\ report'.recent_requests >= 1
               /\ \E i \in DOMAIN _request_timestamps' :
                     _request_timestamps'[i] = req[s].recorded_at]_vars

\* A metrics request has just reported a count that includes itself and leaves
\* out a request recorded a window or more before.
C11_Witness ==
    /\ report.op = "count"
    /\ report.recent_requests >= 2
    /\ Len(recorded) > report.recent_requests
    /\ Len(_request_timestamps) = report.recent_requests
    /\ \E i \in DOMAIN recorded : recorded[i] = report.now - REQUEST_WINDOW_SECONDS

\* The original statement of C13: in every state every timestamp held in a
\* RateWindow is > now - W and every timestamp held in the RequestWindow is
\* > now - W2, now being the current value of the clock.
C13_WindowsAlwaysEvicted ==
    /\ \A k \in Keys : \A i \in DOMAIN _request_log[k] :
          _request_log[k][i] > mono - WINDOW_SECONDS
    /\ \A i \in DOMAIN _request_timestamps :
          _request_timestamps[i] > mono - REQUEST_WINDOW_SECONDS

\* C13 (amended): when an operation on a window returns (rate_limit for the
\* window's key; record or count for the RequestWindow), every timestamp
\* held in that window is > now - W (> now - W2), now being the clock value
\* that operation read; between operations a window is left as it is.
C13_EvictedAfterOperation ==
    [][/\ \A s \in TaskIds :
            /\ (req[s].pc = "limit_body" /\ Steps(s))
               => \A i \in DOMAIN _request_log'[req[s].key] :
                     _request_log'[req[s].key][i] > req[s].now - WINDOW_SECONDS
            /\ ((req[s].pc = "record_body" \/ req[s].pc = "count_body") /\ Steps(s))
               => \A i \in DOMAIN _request_timestamps' :
                     _request_timestamps'[i] > req[s].now - REQUEST_WINDOW_SECONDS
       /\ _request_log' # _request_log
          => \E s \in TaskIds : req[s].pc = "limit_body" /\ Steps(s)
       /\ _request_timestamps' # _request_timestamps
          => \E s \in TaskIds : /\ req[s].pc = "record_body" \/ req[s].pc = "count_body"
                                /\ Steps(s)]_vars

\* rate_limit has just evicted an admission exactly W old and admitted the
\* caller, while the RequestWindow still holds the timestamps of both requests.
C13_Witness ==
    /\ report.op = "limit" /\ report.status = 0
    /\ report.now = WINDOW_SECONDS
    /\ _request_log["metrics"] = << WINDOW_SECONDS >>
    /\ _request_timestamps = << 0, WINDOW_SECONDS >>

\* The program points at which a coroutine is suspended or may be: the awaits
\* on the handler chain and on the store, and the wait for a held lock.
YieldPoints == { "call_next", "execute", "record_lock", "limit_lock", "count_lock" }

\* C15: a request that holds _rate_lock or _request_lock is the one the event
\* loop is executing and stands at the body under that lock, never at a yield
\* point; whenever control is back in the loop both locks are free and no
\* request waits for one; and while a lock is held the only step taken is the
\* holder's, which finishes the evict-check-append (evict-append, evict-count)
\* sequence and leaves the lock.
C15_NoSuspensionUnderLock ==
    /\ [](/\ \A s \in TaskIds :
               /\ _rate_lock = s
                  => running = s /\ req[s].pc = "limit_body"
               /\ _request_lock = s
                  => running = s /\ req[s].pc \in { "record_body", "count_body" }
               /\ (_rate_lock = s \/ _request_lock = s) => req[s].pc \notin YieldPoints
          /\ _rate_lock \in TaskIds \cup {0}
          /\ _request_lock \in TaskIds \cup {0}
          /\ running = 0 => _rate_lock = 0 /\ _request_lock = 0)
    /\ [][\A s \in TaskIds :
             /\ (_rate_lock = s \/ _request_lock = s)
                => /\ Steps(s)
                   /\ \A x \in TaskIds \ {s} : req'[x] = req[x]
                   /\ _rate_lock' = 0 /\ _request_lock' = 0
                   /\ mono' = mono
             /\ (req[s].pc \in { "record_lock", "limit_lock", "count_lock" } /\ Steps(s))
                => /\ running' = s
                   /\ _rate_lock' = s \/ _request_lock' = s]_vars

\* A request holds the counter lock inside _count_recent_requests while
\* another request is suspended in its store read.
C15_Witness ==
    \E s \in TaskIds, x \in TaskIds :
        /\ _request_lock = s /\ running = s /\ req[s].pc = "count_body"
        /\ req[x].pc = "execute"

NonDecreasing(window) ==
    \A i \in DOMAIN window : \A j \in DOMAIN window : i <= j => window[i] <= window[j]

\* The timestamps of window that are later than cutoff, in their order.
LaterThan(window, cutoff) ==
    LET Live(t) == t > cutoff IN SelectSeq(window, Live)

\* C16: every RateWindow and the RequestWindow are non-decreasing from front
\* to back in every state; a request that has read its timestamp and is about
\* to take the lock, or holds it, has a timestamp no earlier than any in the
\* window it will touch; and each operation leaves in its window exactly the
\* timestamps > now - W (> now - W2), in their order, followed by its own
\* timestamp when it appends.
C16_WindowsTimeOrdered ==
    /\ [](/\ \A k \in Keys : NonDecreasing(_request_log[k])
          /\ NonDecreasing(_request_timestamps)
          /\ \A s \in TaskIds :
               /\ req[s].pc \in { "limit_lock", "limit_body" }
                  => \A i \in DOMAIN _request_log[req[s].key] :
                        _request_log[req[s].key][i] <= req[s].now
               /\ req[s].pc \in { "record_lock", "record_body", "count_lock", "count_body" }
                  => \A i \in DOMAIN _request_timestamps :
                        _request_timestamps[i] <= req[s].now)
    /\ [][\A s \in TaskIds :
             /\ (req[s].pc = "limit_body" /\ Steps(s))
                => LET live == LaterThan(_request_log[req[s].key],
                                         req[s].now - WINDOW_SECONDS)
                   IN _request_log'[req[s].key]
                         = IF Len(live) < WINDOW_LIMIT THEN Append(live, req[s].now)
                           ELSE live
             /\ (req[s].pc = "record_body" /\ Steps(s))
                => _request_timestamps'
                      = Append(LaterThan(_request_timestamps,
                                         req[s].now - REQUEST_WINDOW_SECONDS), req[s].now)
             /\ (req[s].pc = "count_body" /\ Steps(s))
                => _request_timestamps'
                      = LaterThan(_request_timestamps,
                                  req[s].now - REQUEST_WINDOW_SECONDS)]_vars

\* While one request is suspended in its handler, another holds the counter
\* lock with a timestamp later than the two different ones in the window.
C16_Witness ==
    \E s \in TaskIds, x \in TaskIds :
        /\ req[s].pc = "record_body" /\ _request_lock = s
        /\ req[x].pc \in { "call_next", "execute" }
        /\ Len(_request_timestamps) >= 2
        /\ _request_timestamps[1] < _request_timestamps[Len(_request_timestamps)]
        /\ _request_timestamps[Len(_request_timestamps)] < req[s].now
        /\ _request_log["metrics"] # <<>>

====
